---- MODULE Spec2Model ----
(***************************************************************************)
(* Model of the Mechanical Tolerances Calculator (src/index.js and the     *)
(* later variant of the same module, src/unnamed/part_002).                *)
(*                                                                         *)
(* Lengths are integers counting 0.0001 mm, so 25.01 mm is 250100 and a    *)
(* value such as 25.0234 mm, finer than the 0.001 mm of toFixed(3), can be *)
(* told from its rounding.                                                 *)
(*                                                                         *)
(* A JavaScript number is a record [cls, v]: cls is "fin" (the finite      *)
(* number v), "nan", "inf" or "ninf".  A JavaScript value handed in as a   *)
(* measurement is a record [type, cls, v, items]:                          *)
(*   type "number": the number [cls, v]                                    *)
(*   type "string": cls "fin"  the decimal text of v        ("25.01")      *)
(*                  cls "fix3" the toFixed(3) text of v     ("25.010")     *)
(*                  cls "junk" the text of v, then letters   ("12abc")     *)
(*                  cls "bad"  no leading number             ("bad")       *)
(*   type "null"  : null                                                   *)
(*   type "array" : the array of the values items                          *)
(* A string handed in as a material type is its sequence of characters.    *)
(***************************************************************************)
EXTENDS Integers, Sequences, FiniteSets, TLC

VARIABLES tolerances, materialType, measurement, op, result, calls

vars == <<tolerances, materialType, measurement, op, result, calls>>

\* Longest measurement list handed to the batch evaluators.
MaxLen == 3

Mm(n) == n * 10000

(***************************************************************************)
(* JavaScript numbers                                                      *)
(***************************************************************************)
Fin(x) == [cls |-> "fin", v |-> x]
NaN == [cls |-> "nan", v |-> 0]
PosInf == [cls |-> "inf", v |-> 0]
NegInf == [cls |-> "ninf", v |-> 0]

isNaN(n) == n.cls = "nan"
isFinite(n) == n.cls = "fin"

\* Position of a number that is not NaN on the extended line.
Ord(n) == CASE n.cls = "fin" -> n.v
            [] n.cls = "inf" -> 2000000000
            [] OTHER -> -2000000000

\* a <= b, a < b, a >= b, a > b of JavaScript: false as soon as one side is NaN.
LessEq(a, b) == ~isNaN(a) /\ ~isNaN(b) /\ Ord(a) <= Ord(b)
Less(a, b) == ~isNaN(a) /\ ~isNaN(b) /\ Ord(a) < Ord(b)
GreaterEq(a, b) == LessEq(b, a)
Greater(a, b) == Less(b, a)

Minus(a, b) ==
  CASE isNaN(a) \/ isNaN(b) -> NaN
    [] isFinite(a) /\ isFinite(b) -> Fin(a.v - b.v)
    [] isFinite(a) -> IF b.cls = "inf" THEN NegInf ELSE PosInf
    [] isFinite(b) -> a
    [] OTHER -> IF a.cls = b.cls THEN NaN ELSE a

Plus(a, b) ==
  CASE isNaN(a) \/ isNaN(b) -> NaN
    [] isFinite(a) /\ isFinite(b) -> Fin(a.v + b.v)
    [] isFinite(a) -> b
    [] isFinite(b) -> a
    [] OTHER -> IF a.cls = b.cls THEN a ELSE NaN

MathFloor(n) == IF isFinite(n) THEN Fin((n.v \div 10000) * 10000) ELSE n
MathCeil(n) == IF isFinite(n) THEN Fin(0 - (((0 - n.v) \div 10000) * 10000)) ELSE n
MathAbs(n) ==
  CASE isFinite(n) -> Fin(IF n.v < 0 THEN 0 - n.v ELSE n.v)
    [] isNaN(n) -> NaN
    [] OTHER -> PosInf

\* Number.prototype.toFixed(3), read back as a number: the nearest multiple
\* of 0.001, the larger one of two equally near.
toFixed3(n) == IF isFinite(n) THEN Fin(((n.v + 5) \div 10) * 10) ELSE n

(***************************************************************************)
(* JavaScript values and their conversions                                 *)
(***************************************************************************)
Num(x) == [type |-> "number", cls |-> "fin", v |-> x, items |-> <<>>]
NumStr(x) == [type |-> "string", cls |-> "fin", v |-> x, items |-> <<>>]
FixedStr(x) == [type |-> "string", cls |-> "fix3", v |-> x, items |-> <<>>]
JunkStr(x) == [type |-> "string", cls |-> "junk", v |-> x, items |-> <<>>]
BadStr == [type |-> "string", cls |-> "bad", v |-> 0, items |-> <<>>]
NaNValue == [type |-> "number", cls |-> "nan", v |-> 0, items |-> <<>>]
InfValue == [type |-> "number", cls |-> "inf", v |-> 0, items |-> <<>>]
NegInfValue == [type |-> "number", cls |-> "ninf", v |-> 0, items |-> <<>>]
Null == [type |-> "null", cls |-> "null", v |-> 0, items |-> <<>>]
Array(s) == [type |-> "array", cls |-> "array", v |-> 0, items |-> s]

ValueOf(n) == [type |-> "number", cls |-> n.cls, v |-> n.v, items |-> <<>>]

\* parseFloat of a value that is no array: the longest numeric prefix of its text.
parseFloatScalar(x) ==
  CASE x.type = "number" -> [cls |-> x.cls, v |-> x.v]
    [] x.type = "string" /\ x.cls \in {"fin", "fix3", "junk"} -> Fin(x.v)
    [] OTHER -> NaN

\* parseFloat: an array is first joined with commas, and null joins as "".
parseFloat(x) ==
  IF x.type = "array"
    THEN IF Len(x.items) = 0 THEN NaN ELSE parseFloatScalar(x.items[1])
    ELSE parseFloatScalar(x)

\* Number(x) of a value that is no array: the whole text must be a number.
ToNumberScalar(x) ==
  CASE x.type = "number" -> [cls |-> x.cls, v |-> x.v]
    [] x.type = "string" /\ x.cls \in {"fin", "fix3"} -> Fin(x.v)
    [] x.type = "null" -> Fin(0)
    [] OTHER -> NaN

\* Number(x), also the conversion of x in x - y, Math.floor(x), x > "1.000".
ToNumber(x) ==
  IF x.type = "array"
    THEN CASE Len(x.items) = 0 -> Fin(0)
           [] Len(x.items) = 1 -> ToNumberScalar(x.items[1])
           [] OTHER -> NaN
    ELSE ToNumberScalar(x)

(***************************************************************************)
(* The text of a string value as character codes, for the comparison of    *)
(* two strings, which JavaScript does character by character.              *)
(***************************************************************************)
RECURSIVE IntDigits(_)
IntDigits(n) ==
  IF n < 10 THEN <<48 + n>> ELSE Append(IntDigits(n \div 10), 48 + (n % 10))

FracDigits(f) ==
  <<48 + (f \div 1000), 48 + ((f \div 100) % 10), 48 + ((f \div 10) % 10), 48 + (f % 10)>>

RECURSIVE DropZeros(_)
DropZeros(s) ==
  IF Len(s) > 0 /\ s[Len(s)] = 48 THEN DropZeros(SubSeq(s, 1, Len(s) - 1)) ELSE s

DecimalText(x, fixed) ==
  LET a == IF x < 0 THEN 0 - x ELSE x
      whole == IntDigits(a \div 10000)
      frac == IF fixed THEN SubSeq(FracDigits(a % 10000), 1, 3)
                       ELSE DropZeros(FracDigits(a % 10000))
      body == IF Len(frac) = 0 THEN whole ELSE whole \o <<46>> \o frac
  IN IF x < 0 THEN <<45>> \o body ELSE body

TextOf(x) ==
  CASE x.cls = "fin" -> DecimalText(x.v, FALSE)
    [] x.cls = "fix3" -> DecimalText(x.v, TRUE)
    [] x.cls = "junk" -> DecimalText(x.v, FALSE) \o <<97>>
    [] OTHER -> <<98>>

RECURSIVE TextLess(_, _)
TextLess(s, t) ==
  IF Len(t) = 0 THEN FALSE
  ELSE IF Len(s) = 0 THEN TRUE
  ELSE IF s[1] # t[1] THEN s[1] < t[1]
  ELSE TextLess(Tail(s), Tail(t))

\* x < y and x <= y of two values: by text when both are strings, else as numbers.
JsLess(x, y) ==
  IF x.type = "string" /\ y.type = "string"
    THEN TextLess(TextOf(x), TextOf(y))
    ELSE Less(ToNumber(x), ToNumber(y))

JsLessEq(x, y) ==
  IF x.type = "string" /\ y.type = "string"
    THEN ~TextLess(TextOf(y), TextOf(x))
    ELSE LessEq(ToNumber(x), ToNumber(y))

JsGreater(x, y) == JsLess(y, x)
JsGreaterEq(x, y) == JsLessEq(y, x)

(***************************************************************************)
(* Strings as character sequences                                          *)
(***************************************************************************)
UpperCase == <<"A", "B", "C", "D", "E", "F", "G", "H", "I", "J", "K", "L", "M",
               "N", "O", "P", "Q", "R", "S", "T", "U", "V", "W", "X", "Y", "Z">>
LowerCase == <<"a", "b", "c", "d", "e", "f", "g", "h", "i", "j", "k", "l", "m",
               "n", "o", "p", "q", "r", "s", "t", "u", "v", "w", "x", "y", "z">>

RECURSIVE toLowerCase(_)
toLowerCase(s) ==
  IF Len(s) = 0 THEN <<>>
  ELSE <<IF \E k \in 1..26 : UpperCase[k] = Head(s)
           THEN LowerCase[CHOOSE k \in 1..26 : UpperCase[k] = Head(s)]
           ELSE Head(s)>> \o toLowerCase(Tail(s))

trim(s) ==
  IF \A i \in 1..Len(s) : s[i] = " " THEN <<>>
  ELSE LET first == CHOOSE i \in 1..Len(s) :
                      s[i] # " " /\ \A j \in 1..(i - 1) : s[j] = " "
           last == CHOOSE i \in 1..Len(s) :
                      s[i] # " " /\ \A j \in (i + 1)..Len(s) : s[j] = " "
       IN SubSeq(s, first, last)

includes(s, sub) ==
  \E i \in 1..(Len(s) - Len(sub) + 1) : SubSeq(s, i, i + Len(sub) - 1) = sub

HousingWord == <<"h", "o", "u", "s", "i", "n", "g">>
ShaftWord == <<"s", "h", "a", "f", "t">>
ShellWord == <<"s", "h", "e", "l", "l">>

\* A material type argument: a string, or a value of another type.
Str(s) == [type |-> "string", chars |-> s]
NotAString == [type |-> "number", chars |-> <<>>]

(***************************************************************************)
(* The reference table (Tolerances.json)                                   *)
(***************************************************************************)
Row(lo, hi, up, low, it5, it6) ==
  [minimum_diameter |-> Mm(lo), maximum_diameter |-> Mm(hi),
   upper_deviation |-> up, lower_deviation |-> low, IT5 |-> it5, IT6 |-> it6]

Tolerances ==
  [housingBores |->
     [H7 |-> <<Row(0, 18, 180, 0, 80, 110), Row(18, 30, 210, 0, 90, 130),
               Row(30, 500, 250, 0, 110, 160)>>,
      H8 |-> <<Row(0, 18, 270, 0, 80, 110), Row(18, 30, 330, 0, 90, 130),
               Row(30, 500, 390, 0, 110, 160)>>],
   shellBores |->
     [H8 |-> <<Row(0, 18, 270, 0, 80, 110), Row(18, 30, 330, 0, 90, 130),
               Row(30, 500, 390, 0, 110, 160)>>,
      H9 |-> <<Row(0, 18, 430, 0, 80, 110), Row(18, 30, 520, 0, 90, 130),
               Row(30, 500, 620, 0, 110, 160)>>],
   shafts |->
     [h8 |-> <<Row(0, 18, 0, -270, 80, 110), Row(18, 30, 0, -330, 90, 130),
               Row(30, 500, 0, -390, 110, 160)>>,
      h9 |-> <<Row(0, 18, 0, -430, 80, 110), Row(18, 30, 0, -300, 90, 130),
               Row(30, 500, 0, -620, 110, 160)>>]]

(***************************************************************************)
(* Results of a call                                                       *)
(***************************************************************************)
Return(x) == [kind |-> "return", val |-> x]
Throw(name) == [kind |-> "throw", val |-> [exception |-> name]]
NoResult == [kind |-> "none", val |-> [none |-> TRUE]]

isError(x) == "error" \in DOMAIN x

(***************************************************************************)
(* src/index.js: the table accessor                                        *)
(***************************************************************************)
validateMaterialType(mt) ==
  IF mt.type # "string"
    THEN [error |-> "Material type must be a string."]
  ELSE IF trim(mt.chars) = <<>>
    THEN [error |-> "Material type is required and cannot be empty."]
  ELSE mt

returnTolerancesFor(executableMaterialType, spec) ==
  IF spec # ""
    THEN LET allTolerances == tolerances[executableMaterialType]
         IN IF spec \notin DOMAIN allTolerances
              THEN [error |-> "Currently available specifications are ..."]
              ELSE [type |-> executableMaterialType,
                    specification |-> tolerances[executableMaterialType][spec]]
    ELSE [type |-> executableMaterialType,
          specifications |-> tolerances[executableMaterialType]]

UnknownMaterialType ==
  [error |-> "Unknown material type: ... Valid types are 'housing', 'shaft', or 'shell'."]

\* validatedMaterialType.trim() is a TypeError when validateMaterialType handed
\* back its error object instead of the string.
getAllTolerancesFor(mt) ==
  LET validatedMaterialType == validateMaterialType(mt)
  IN IF isError(validatedMaterialType) THEN Throw("TypeError")
     ELSE LET trimmedMaterialType == toLowerCase(trim(validatedMaterialType.chars))
          IN IF includes(trimmedMaterialType, HousingWord)
               THEN Return(returnTolerancesFor("housingBores", ""))
             ELSE IF includes(trimmedMaterialType, ShaftWord)
               THEN Return(returnTolerancesFor("shafts", ""))
             ELSE IF includes(trimmedMaterialType, ShellWord)
               THEN Return(returnTolerancesFor("shellBores", ""))
             ELSE Return(UnknownMaterialType)

\* As getCamcoStandardTolerancesFor, with H7 looked up for a housing.
getCamcoStandardTolerancesFor_H7(mt) ==
  LET validatedMaterialType == validateMaterialType(mt)
  IN IF isError(validatedMaterialType) THEN Throw("TypeError")
     ELSE LET trimmedMaterialType == toLowerCase(trim(validatedMaterialType.chars))
          IN IF includes(trimmedMaterialType, HousingWord)
               THEN Return(returnTolerancesFor("housingBores", "H7"))
             ELSE IF includes(trimmedMaterialType, ShellWord)
               THEN Return(returnTolerancesFor("shellBores", "H9"))
             ELSE IF includes(trimmedMaterialType, ShaftWord)
               THEN Return(returnTolerancesFor("shafts", "h9"))
             ELSE Return(UnknownMaterialType)

getCamcoStandardTolerancesFor(mt) ==
  LET validatedMaterialType == validateMaterialType(mt)
  IN IF isError(validatedMaterialType) THEN Throw("TypeError")
     ELSE LET trimmedMaterialType == toLowerCase(trim(validatedMaterialType.chars))
          IN IF includes(trimmedMaterialType, HousingWord)
               THEN Return(returnTolerancesFor("housingBores", "H8"))
             ELSE IF includes(trimmedMaterialType, ShellWord)
               THEN Return(returnTolerancesFor("shellBores", "H9"))
             ELSE IF includes(trimmedMaterialType, ShaftWord)
               THEN Return(returnTolerancesFor("shafts", "h9"))
             ELSE Return(UnknownMaterialType)

(***************************************************************************)
(* src/index.js: one measurement                                           *)
(***************************************************************************)
MeasurementError == [error |-> "Measurement must be between 0 to 1000."]

isValidMeasurement(m) ==
  LET num == parseFloat(m)
  IN ~isNaN(num) /\ GreaterEq(num, Fin(0)) /\ Less(num, Fin(Mm(1000)))

THRESHOLD == 9000

\* As parseNominalFromMeasurement, with every type rounded to the nearest whole
\* number, as the types that are neither shafts nor bores are.
parseNominalFromMeasurement_nearest(m, type) ==
  IF ~isValidMeasurement(m) THEN MeasurementError
  ELSE MathFloor(Plus(ToNumber(m), Fin(5000)))

parseNominalFromMeasurement(m, type) ==
  IF ~isValidMeasurement(m) THEN MeasurementError
  ELSE IF type = "shafts"
    THEN LET standardNominal == MathCeil(ToNumber(m))
         IN IF GreaterEq(Minus(standardNominal, ToNumber(m)), Fin(THRESHOLD))
              THEN MathFloor(ToNumber(m))
              ELSE MathCeil(ToNumber(m))
  ELSE IF type \in {"housingBores", "shellBores"}
    THEN LET standardNominal == MathFloor(ToNumber(m))
         IN IF GreaterEq(Minus(ToNumber(m), standardNominal), Fin(THRESHOLD))
              THEN MathCeil(ToNumber(m))
              ELSE standardNominal
  ELSE MathFloor(Plus(ToNumber(m), Fin(5000)))

MATERIAL_TYPE_CONFIG ==
  [shafts |-> [specification |-> "h9", itGrade |-> "IT5"],
   housingBores |-> [specification |-> "H8", itGrade |-> "IT6"],
   shellBores |-> [specification |-> "H9", itGrade |-> "IT6"]]

\* As rangeMatch, with both ends of the bracket taken in.
rangeMatch_closed(type, nominal, spec) ==
  /\ ~isError(nominal)
  /\ GreaterEq(nominal, Fin(spec.minimum_diameter))
  /\ LessEq(nominal, Fin(spec.maximum_diameter))

\* As rangeMatch, with both ends of the bracket left out.
rangeMatch_open(type, nominal, spec) ==
  /\ ~isError(nominal)
  /\ Greater(nominal, Fin(spec.minimum_diameter))
  /\ Less(nominal, Fin(spec.maximum_diameter))

\* As rangeMatch, with the rule of the bores for the shafts too.
rangeMatch_bores(type, nominal, spec) ==
  /\ ~isError(nominal)
  /\ GreaterEq(nominal, Fin(spec.minimum_diameter))
  /\ Less(nominal, Fin(spec.maximum_diameter))

\* MATERIAL_TYPE_CONFIG[type].rangeMatch; a nominal that is no number compares false.
rangeMatch(type, nominal, spec) ==
  /\ ~isError(nominal)
  /\ IF type = "shafts"
       THEN /\ Greater(nominal, Fin(spec.minimum_diameter))
            /\ LessEq(nominal, Fin(spec.maximum_diameter))
       ELSE /\ GreaterEq(nominal, Fin(spec.minimum_diameter))
            /\ Less(nominal, Fin(spec.maximum_diameter))

findMatchingSpec(nominal, specs, type) ==
  IF \E i \in 1..Len(specs) : rangeMatch(type, nominal, specs[i])
    THEN specs[CHOOSE i \in 1..Len(specs) :
                 /\ rangeMatch(type, nominal, specs[i])
                 /\ \A j \in 1..(i - 1) : ~rangeMatch(type, nominal, specs[j])]
    ELSE Null

\* null and undefined give 0, a number itself, a string its parseFloat or 0.
parseStringFloat(x) ==
  IF x.type = "null" THEN Fin(0)
  ELSE IF x.type = "number" THEN [cls |-> x.cls, v |-> x.v]
  ELSE IF isNaN(parseFloat(x)) THEN Fin(0) ELSE parseFloat(x)

\* As parseComputedBound, with the deviation taken without its sign.
parseComputedBound_magnitude(base, deviation) ==
  LET sum == toFixed3(Plus(base, Fin(IF deviation < 0 THEN 0 - deviation ELSE deviation)))
  IN IF isFinite(sum) THEN FixedStr(sum.v) ELSE BadStr

\* Number(base + deviation).toFixed(3): a string of three decimals.
parseComputedBound(base, deviation) ==
  LET sum == toFixed3(Plus(base, Fin(deviation)))
  IN IF isFinite(sum) THEN FixedStr(sum.v) ELSE BadStr

calculateComputedBounds(nominal, spec) ==
  [upperBound |-> parseComputedBound(nominal, spec.upper_deviation),
   lowerBound |-> parseComputedBound(nominal, spec.lower_deviation)]

\* The text "<nominal, 3 decimals> <sign> <deviation without a leading minus>".
parseUncomputedBound(nominal, deviation, sign) ==
  [base |-> toFixed3(nominal),
   sign |-> sign,
   magnitude |-> IF deviation < 0 THEN 0 - deviation ELSE deviation]

calculateUncomputedBounds(nominal, spec) ==
  [upperBound |-> parseUncomputedBound(nominal, spec.upper_deviation, "+"),
   lowerBound |-> parseUncomputedBound(nominal, spec.lower_deviation, "-")]

\* As checkMeetsSpecification, with the upper bound left out of the range.
checkMeetsSpecification_exclusive(m, bounds) ==
  IF ~isValidMeasurement(m) THEN MeasurementError
  ELSE LET measure == parseStringFloat(m)
           upper == parseStringFloat(bounds.upperBound)
           lower == parseStringFloat(bounds.lowerBound)
       IN GreaterEq(measure, lower) /\ Less(measure, upper)

checkMeetsSpecification(m, bounds) ==
  IF ~isValidMeasurement(m) THEN MeasurementError
  ELSE LET measure == parseStringFloat(m)
           upper == parseStringFloat(bounds.upperBound)
           lower == parseStringFloat(bounds.lowerBound)
       IN GreaterEq(measure, lower) /\ LessEq(measure, upper)

\* A number as its toFixed(3) text; any other value as it is.
parseToFixedThreeString(x) ==
  IF x.type = "number"
    THEN IF x.cls = "fin" THEN FixedStr(toFixed3(Fin(x.v)).v) ELSE BadStr
    ELSE x

\* "<m> falls between <base1> and <base2>" or "<m> doesn't fall between ...".
generateReasonForSpecs(spec, m, base1, base2) ==
  [falls |-> (spec = TRUE), measurement |-> parseToFixedThreeString(m),
   lower |-> base1, upper |-> base2]

\* As outcome, with a measurement on the upper bound counted as over-sized.
outcome_fromBound(m, computedBounds) ==
  IF JsGreaterEq(m, computedBounds.upperBound) THEN "over-sized"
  ELSE IF JsGreaterEq(m, computedBounds.lowerBound) THEN "acceptable"
  ELSE "under-sized"

\* The outcome classification of processMeasurement.
outcome(m, computedBounds) ==
  IF JsGreater(m, computedBounds.upperBound) THEN "over-sized"
  ELSE IF /\ JsGreaterEq(m, computedBounds.lowerBound)
          /\ JsLessEq(m, computedBounds.upperBound)
    THEN "acceptable"
  ELSE "under-sized"

(***************************************************************************)
(* A function that binds a value with const and goes on is written as one  *)
(* operator up to the binding and one for what follows it, which takes the *)
(* bound value as a parameter of the bound name.                           *)
(***************************************************************************)

\* The table handed on by the caller: its row-set, or none when it is an error.
SpecificationOf(tol) ==
  IF "specification" \in DOMAIN tol THEN tol.specification ELSE <<>>

\* processMeasurement once computedBounds is bound.
processMeasurement_computedBounds(type, m, nominal, matchedSpec, computedBounds) ==
  [measurement |-> parseStringFloat(m),
   nominal |-> nominal,
   specification |-> MATERIAL_TYPE_CONFIG[type].specification,
   IT_grade |-> MATERIAL_TYPE_CONFIG[type].itGrade,
   computed_specification_bounds |-> computedBounds,
   uncomputed_specification_bounds |-> calculateUncomputedBounds(nominal, matchedSpec),
   matched_spec |-> matchedSpec,
   meets_specification |->
     [meetsSpec |-> checkMeetsSpecification(m, computedBounds),
      reason |-> generateReasonForSpecs(checkMeetsSpecification(m, computedBounds), m,
                                        computedBounds.lowerBound,
                                        computedBounds.upperBound),
      concludedReason |-> outcome(m, computedBounds)]]

\* processMeasurement once matchedSpec is bound.
processMeasurement_matchedSpec(type, m, nominal, matchedSpec) ==
  IF matchedSpec = Null
    THEN [error |-> TRUE,
          message |-> "No specification found for nominal diameter: ...",
          nominal |-> nominal]
    ELSE processMeasurement_computedBounds(type, m, nominal, matchedSpec,
           calculateComputedBounds(nominal, matchedSpec))

\* processMeasurement once nominal is bound.
processMeasurement_nominal(type, m, tol, nominal) ==
  processMeasurement_matchedSpec(type, m, nominal,
    findMatchingSpec(nominal, SpecificationOf(tol), type))

processMeasurement(type, m, tol) ==
  IF ~isValidMeasurement(m) THEN MeasurementError
  ELSE IF type \notin DOMAIN MATERIAL_TYPE_CONFIG
    THEN [error |-> TRUE, message |-> "Unknown material type: ..."]
  ELSE processMeasurement_nominal(type, m, tol, parseNominalFromMeasurement(m, type))

\* The helpers processMeasurement runs, in order.
processMeasurementCalls(type, m, tol) ==
  IF ~isValidMeasurement(m) \/ type \notin DOMAIN MATERIAL_TYPE_CONFIG THEN <<>>
  ELSE IF findMatchingSpec(parseNominalFromMeasurement(m, type),
                           SpecificationOf(tol), type) = Null
    THEN <<"parseNominalFromMeasurement", "findMatchingSpec">>
  ELSE <<"parseNominalFromMeasurement", "findMatchingSpec",
         "calculateComputedBounds", "calculateUncomputedBounds",
         "checkMeetsSpecification">>

\* A variant that judges the IT tolerance by the matched row's IT magnitude:
\* the spread of one measurement, 0, against it.
processOneMeasurement_processed_graded(processedMeasurement) ==
  IF "meets_specification" \notin DOMAIN processedMeasurement
    THEN Throw("TypeError")
    ELSE Return(processedMeasurement @@
                [meets_IT_tolerance |->
                   (0 <= processedMeasurement.matched_spec[processedMeasurement.IT_grade])])

\* processedMeasurement.meets_specification.meetsSpec is a TypeError when
\* processMeasurement handed back an error object.
processOneMeasurement_processed(processedMeasurement) ==
  IF "meets_specification" \notin DOMAIN processedMeasurement
    THEN Throw("TypeError")
    ELSE Return(processedMeasurement @@
                [meets_IT_tolerance |->
                   processedMeasurement.meets_specification.meetsSpec])

processOneMeasurement(type, m, tol) ==
  IF ~isValidMeasurement(m) THEN Return(MeasurementError)
  ELSE processOneMeasurement_processed(processMeasurement(type, m, tol))

\* The type field of what getCamcoStandardTolerancesFor returned.
TypeOf(tol) == IF "type" \in DOMAIN tol THEN tol.type ELSE "undefined"

\* [ret: what the call returns or throws, calls: the functions it ran, in order]
checkOneMeasurementFor_camco(m, camco) ==
  IF camco.kind = "throw" \/ isError(camco.val)
    THEN [ret |-> camco,
          calls |-> <<"isValidMeasurement", "getCamcoStandardTolerancesFor">>]
  ELSE IF m.type # "number" \/ m.cls = "nan"
    THEN [ret |-> Return([error |-> TRUE, message |-> "Invalid measurement value"]),
          calls |-> <<"isValidMeasurement", "getCamcoStandardTolerancesFor">>]
  ELSE [ret |-> processOneMeasurement(camco.val.type, m, camco.val),
        calls |-> <<"isValidMeasurement", "getCamcoStandardTolerancesFor",
                    "processOneMeasurement", "processMeasurement">>
                   \o processMeasurementCalls(camco.val.type, m, camco.val)]

checkOneMeasurementFor(mt, m) ==
  IF ~isValidMeasurement(m)
    THEN [ret |-> Return(MeasurementError), calls |-> <<"isValidMeasurement">>]
  ELSE checkOneMeasurementFor_camco(m, getCamcoStandardTolerancesFor(mt))

(***************************************************************************)
(* src/index.js: a batch of measurements                                   *)
(***************************************************************************)
processIndividualMeasurement(type, m, tol) ==
  IF ~isValidMeasurement(m) THEN MeasurementError
  ELSE processMeasurement(type, m, tol)

validateMeasurements(ms) ==
  IF ms.type # "array"
    THEN [error |-> "Measurements must be an array of numbers"]
  ELSE IF Len(ms.items) = 0
    THEN [error |-> "Measurements array cannot be empty"]
  ELSE Null

\* The entries pushed to errors: one per item isValidMeasurement refuses, in
\* list order, with the item's index counted from 0.
RECURSIVE invalidEntries(_, _)
invalidEntries(items, i) ==
  IF i > Len(items) THEN <<>>
  ELSE IF ~isValidMeasurement(items[i])
    THEN <<[index |-> i - 1, value |-> items[i],
            error |-> "Invalid measurement: must be 0-1000"]>>
         \o invalidEntries(items, i + 1)
  ELSE invalidEntries(items, i + 1)

\* Math.max(...items) and Math.min(...items): NaN as soon as one item is no number.
MathMax(items) ==
  IF \E i \in 1..Len(items) : isNaN(ToNumber(items[i])) THEN NaN
  ELSE IF Len(items) = 0 THEN NegInf
  ELSE ToNumber(items[CHOOSE i \in 1..Len(items) :
         \A j \in 1..Len(items) : LessEq(ToNumber(items[j]), ToNumber(items[i]))])

MathMin(items) ==
  IF \E i \in 1..Len(items) : isNaN(ToNumber(items[i])) THEN NaN
  ELSE IF Len(items) = 0 THEN PosInf
  ELSE ToNumber(items[CHOOSE i \in 1..Len(items) :
         \A j \in 1..Len(items) : LessEq(ToNumber(items[i]), ToNumber(items[j]))])

\* As ITDifference, with the largest measurement in place of the spread.
ITDifference_largest(items) ==
  parseToFixedThreeString(ValueOf(MathMax(items)))

\* parseToFixedThreeString(largestMeasurement - smallestMeasurement)
ITDifference(items) ==
  parseToFixedThreeString(ValueOf(Minus(MathMax(items), MathMin(items))))

\* The loop's update of mostFarMeasurement, item i onwards: each item is held
\* against its own nominal.
RECURSIVE mostFarMeasurement(_, _, _)
mostFarMeasurement(results, i, far) ==
  IF i > Len(results) THEN far
  ELSE mostFarMeasurement(results, i + 1,
         IF Greater(MathAbs(Minus(results[i].nominal, results[i].measurement)),
                    MathAbs(Minus(results[i].nominal, far)))
           THEN results[i].measurement
           ELSE far)

\* nominals[result.nominal] = count++ for every result: each nominal's key
\* holds the position, from 0, of the last item that has it.
nominalsOf(results) ==
  [k \in {results[i].nominal.v : i \in 1..Len(results)} |->
     (CHOOSE i \in 1..Len(results) :
        /\ results[i].nominal.v = k
        /\ \A j \in (i + 1)..Len(results) : results[j].nominal.v # k) - 1]

MaxOf(S) == CHOOSE x \in S : \A y \in S : y <= x
MinOf(S) == CHOOSE x \in S : \A y \in S : x <= y

\* Object.keys lists keys that are whole numbers in ascending order; find takes
\* the first whose entry is the greatest entry.
mostOccuredNominal(results) ==
  LET nominals == nominalsOf(results)
      countOfMostOccuredNominal == MaxOf({nominals[k] : k \in DOMAIN nominals})
  IN MinOf({k \in DOMAIN nominals : nominals[k] = countOfMostOccuredNominal})

baseSpecOf(results, nominal) ==
  results[CHOOSE i \in 1..Len(results) :
            /\ results[i].nominal = Fin(nominal)
            /\ \A j \in 1..(i - 1) : results[j].nominal # Fin(nominal)]

\* "The difference between <m1> and <m2> is less than or equal to <base>." or
\* "... is greater than <base>."
generateReasonForTolerances(spec, m1, m2, base) ==
  [within |-> (spec = TRUE), largest |-> parseToFixedThreeString(m1),
   smallest |-> parseToFixedThreeString(m2), base |-> base]

\* As meets_final_compliance, with one of the two checks enough.
meets_final_compliance_either(meetsIT, meetsSpec) == meetsIT = TRUE \/ meetsSpec = TRUE

meets_final_compliance(meetsIT, meetsSpec) == meetsIT = TRUE /\ meetsSpec = TRUE

\* The part of checkMultipleMeasurementsFor after every item was processed.
batchResult_checked(ms, results, baseSpec, meetsIT, meetsSpec) ==
  [measurement |-> ms,
   meets_specification |->
     [meetsSpec |-> meetsSpec,
      reason |->
        generateReasonForSpecs(meetsSpec,
          ValueOf(mostFarMeasurement(results, 1, MathMax(ms.items))),
          baseSpec.computed_specification_bounds.lowerBound,
          baseSpec.computed_specification_bounds.upperBound)],
   meets_IT_Tolerance |->
     [meetsIT |-> meetsIT,
      reason |->
        generateReasonForTolerances(meetsIT, ValueOf(MathMax(ms.items)),
                                    ValueOf(MathMin(ms.items)),
                                    baseSpec.matched_spec[baseSpec.IT_grade])],
   meets_final_compliance |-> meets_final_compliance(meetsIT, meetsSpec)]
  @@ baseSpec

\* The part once baseSpec is bound: meetsIT and meetsSpec.
batchResult_baseSpec(ms, results, baseSpec) ==
  batchResult_checked(ms, results, baseSpec,
    JsLessEq(ITDifference(ms.items), Num(baseSpec.matched_spec[baseSpec.IT_grade])),
    \A i \in 1..Len(results) : results[i].meets_specification.meetsSpec = TRUE)

batchResult(ms, results) ==
  batchResult_baseSpec(ms, results, baseSpecOf(results, mostOccuredNominal(results)))

\* measurements.map(processIndividualMeasurement), item i onwards.
RECURSIVE mapItems(_, _, _, _)
mapItems(type, items, tol, i) ==
  IF i > Len(items) THEN <<>>
  ELSE <<processIndividualMeasurement(type, items[i], tol)>>
       \o mapItems(type, items, tol, i + 1)

\* Names of the per-item calls made until the loop ends or an item throws.
RECURSIVE itemCalls(_, _)
itemCalls(results, i) ==
  IF i > Len(results) THEN <<>>
  ELSE IF "meets_specification" \notin DOMAIN results[i]
    THEN <<"processIndividualMeasurement">>
  ELSE <<"processIndividualMeasurement">> \o itemCalls(results, i + 1)

\* result.meets_specification.meetsSpec is a TypeError for an item whose
\* processing handed back an error object.
checkMultipleMeasurementsFor_results(ms, results) ==
  [ret |-> IF \E i \in 1..Len(results) : "meets_specification" \notin DOMAIN results[i]
             THEN Throw("TypeError")
             ELSE Return(batchResult(ms, results)),
   calls |-> <<"validateMeasurements", "getCamcoStandardTolerancesFor">>
               \o itemCalls(results, 1)]

checkMultipleMeasurementsFor_camco(ms, camco) ==
  IF camco.kind = "throw"
    THEN [ret |-> camco,
          calls |-> <<"validateMeasurements", "getCamcoStandardTolerancesFor">>]
    ELSE checkMultipleMeasurementsFor_results(ms,
           mapItems(TypeOf(camco.val), ms.items, camco.val, 1))

checkMultipleMeasurementsFor(mt, ms) ==
  IF validateMeasurements(ms) # Null
    THEN [ret |-> Return(validateMeasurements(ms)), calls |-> <<"validateMeasurements">>]
  ELSE IF Len(invalidEntries(ms.items, 1)) > 0
    THEN [ret |-> Return([error |-> "Some measurements are invalid.",
                          details |-> invalidEntries(ms.items, 1)]),
          calls |-> <<"validateMeasurements">>]
  ELSE checkMultipleMeasurementsFor_camco(ms, getCamcoStandardTolerancesFor(mt))

(***************************************************************************)
(* src/unnamed/part_002: the later variant of the module.  Its             *)
(* validateMaterialType, getAllTolerancesFor, getCamcoStandardTolerancesFor *)
(* and MATERIAL_TYPE_CONFIG read as those of src/index.js, and its         *)
(* returnTolerancesFor answers alike; they are not repeated.               *)
(***************************************************************************)
isValidMeasurement_p2(m) ==
  LET value == ToNumber(m)
  IN isFinite(value) /\ GreaterEq(value, Fin(0)) /\ Less(value, Fin(Mm(1000)))

THRESHOLD_p2 == 9000

parseNominalFromMeasurement_p2(m, type) ==
  IF ~isValidMeasurement_p2(m)
    THEN [error |-> "Measurement must be between 0 and 1000."]
  ELSE
    LET value == ToNumber(m)
    IN IF type = "shafts"
         THEN LET ceilNominal == MathCeil(value)
                  deviationFromCeil == Minus(ceilNominal, value)
              IN IF GreaterEq(deviationFromCeil, Fin(THRESHOLD_p2))
                   THEN MathFloor(value)
                   ELSE ceilNominal
       ELSE IF type \in {"housingBores", "shellBores"}
         THEN LET floorNominal == MathFloor(value)
                  deviationFromFloor == Minus(value, floorNominal)
              IN IF GreaterEq(deviationFromFloor, Fin(THRESHOLD_p2))
                   THEN MathCeil(value)
                   ELSE floorNominal
       ELSE MathFloor(Plus(value, Fin(5000)))

findMatchingSpec_p2(nominal, specs, type) ==
  IF \E i \in 1..Len(specs) : rangeMatch(type, nominal, specs[i])
    THEN specs[CHOOSE i \in 1..Len(specs) :
                 /\ rangeMatch(type, nominal, specs[i])
                 /\ \A j \in 1..(i - 1) : ~rangeMatch(type, nominal, specs[j])]
    ELSE Null

parseStringFloat_p2(x) ==
  IF x.type = "null" THEN Fin(0)
  ELSE IF x.type = "number" THEN [cls |-> x.cls, v |-> x.v]
  ELSE IF isFinite(parseFloat(x)) THEN parseFloat(x) ELSE Fin(0)

parseToFixedThreeString_p2(x) ==
  LET num == IF x.type = "number" THEN [cls |-> x.cls, v |-> x.v] ELSE parseFloat(x)
  IN IF isFinite(num) THEN FixedStr(toFixed3(num).v) ELSE FixedStr(0)

parseComputedBound_p2(base, deviation) ==
  LET bound == toFixed3(Plus(base, Fin(deviation)))
  IN IF isFinite(bound) THEN FixedStr(bound.v) ELSE BadStr

calculateComputedBounds_p2(nominal, spec) ==
  [upperBound |-> parseComputedBound_p2(nominal, spec.upper_deviation),
   lowerBound |-> parseComputedBound_p2(nominal, spec.lower_deviation)]

parseUncomputedBound_p2(nominal, deviation, sign) ==
  [base |-> toFixed3(nominal),
   sign |-> sign,
   magnitude |-> IF deviation < 0 THEN 0 - deviation ELSE deviation]

calculateUncomputedBounds_p2(nominal, spec) ==
  [upperBound |-> parseUncomputedBound_p2(nominal, spec.upper_deviation, "+"),
   lowerBound |-> parseUncomputedBound_p2(nominal, spec.lower_deviation, "-")]

checkMeetsSpecification_p2(m, bounds) ==
  IF ~isValidMeasurement_p2(m)
    THEN [error |-> "Measurement must be between 0 and 1000."]
  ELSE LET value == ToNumber(m)
           upper == ToNumber(bounds.upperBound)
           lower == ToNumber(bounds.lowerBound)
       IN IF ~(isFinite(value) /\ isFinite(upper) /\ isFinite(lower))
            THEN [error |-> "Invalid specification bounds."]
            ELSE GreaterEq(value, lower) /\ LessEq(value, upper)

\* "<m> falls between <lower> and <upper>. So, the material meets <specType>
\* specification." or "<m> doesn't fall between ...".
generateReasonForSpecs_p2(spec, m, lowerBound, upperBound, specType) ==
  [falls |-> (spec = TRUE), measurement |-> parseToFixedThreeString_p2(m),
   lower |-> lowerBound, upper |-> upperBound, specType |-> specType]

\* The outcome classification of processOneMeasurement.
outcome_p2(numericMeasurement, computedBounds) ==
  IF JsGreater(numericMeasurement, computedBounds.upperBound) THEN "over-sized"
  ELSE IF JsLess(numericMeasurement, computedBounds.lowerBound) THEN "under-sized"
  ELSE "acceptable"

processOneMeasurement_p2_computedBounds(type, m, nominal, matchedSpec, computedBounds) ==
  [measurement |-> parseStringFloat_p2(m),
   nominal |-> nominal,
   specification |-> MATERIAL_TYPE_CONFIG[type].specification,
   IT_grade |-> MATERIAL_TYPE_CONFIG[type].itGrade,
   computed_specification_bounds |-> computedBounds,
   uncomputed_specification_bounds |-> calculateUncomputedBounds_p2(nominal, matchedSpec),
   matched_spec |-> matchedSpec,
   meets_specification |->
     [meetsSpec |-> checkMeetsSpecification_p2(m, computedBounds),
      reason |-> generateReasonForSpecs_p2(checkMeetsSpecification_p2(m, computedBounds),
                                           m, computedBounds.lowerBound,
                                           computedBounds.upperBound, "undefined"),
      concludedReason |-> outcome_p2(ValueOf(parseStringFloat_p2(m)), computedBounds)]]

processOneMeasurement_p2_matchedSpec(type, m, nominal, matchedSpec) ==
  IF matchedSpec = Null
    THEN [error |-> TRUE,
          message |-> "No specification found for nominal diameter: ...",
          nominal |-> nominal]
    ELSE processOneMeasurement_p2_computedBounds(type, m, nominal, matchedSpec,
           calculateComputedBounds_p2(nominal, matchedSpec))

processOneMeasurement_p2_nominal(type, m, tol, nominal) ==
  IF isError(nominal) THEN [error |-> TRUE, message |-> nominal.error]
  ELSE processOneMeasurement_p2_matchedSpec(type, m, nominal,
         findMatchingSpec_p2(nominal, SpecificationOf(tol), type))

processOneMeasurement_p2(type, m, tol) ==
  IF ~isValidMeasurement_p2(m)
    THEN [error |-> "Measurement must be between 0 and 1000."]
  ELSE IF type \notin DOMAIN MATERIAL_TYPE_CONFIG
    THEN [error |-> TRUE, message |-> "Unknown material type: ..."]
  ELSE processOneMeasurement_p2_nominal(type, m, tol,
         parseNominalFromMeasurement_p2(m, type))

checkOneMeasurementFor_p2_camco(m, camcoStandardTolerances) ==
  IF camcoStandardTolerances.kind = "throw" \/ isError(camcoStandardTolerances.val)
    THEN [ret |-> camcoStandardTolerances,
          calls |-> <<"isValidMeasurement", "getCamcoStandardTolerancesFor">>]
  ELSE IF ~isFinite(ToNumber(m))
    THEN [ret |-> Return([error |-> TRUE, message |-> "Invalid measurement value"]),
          calls |-> <<"isValidMeasurement", "getCamcoStandardTolerancesFor">>]
  ELSE [ret |-> Return(processOneMeasurement_p2(camcoStandardTolerances.val.type,
                                                ValueOf(ToNumber(m)),
                                                camcoStandardTolerances.val)),
        calls |-> <<"isValidMeasurement", "getCamcoStandardTolerancesFor",
                    "processOneMeasurement">>]

checkOneMeasurementFor_p2(mt, m) ==
  IF ~isValidMeasurement_p2(m)
    THEN [ret |-> Return([error |-> "Measurement must be between 0 and 1000."]),
          calls |-> <<"isValidMeasurement">>]
  ELSE checkOneMeasurementFor_p2_camco(m, getCamcoStandardTolerancesFor(mt))

processIndividualMeasurement_p2(type, m, tol) ==
  IF ~isValidMeasurement_p2(m) THEN MeasurementError
  ELSE processOneMeasurement_p2(type, m, tol)

validateMeasurements_p2(ms) ==
  IF ms.type # "array"
    THEN [error |-> "Measurements must be an array of numbers."]
  ELSE IF Len(ms.items) = 0
    THEN [error |-> "Measurements array cannot be empty."]
  ELSE Null

RECURSIVE invalids_p2(_, _)
invalids_p2(items, i) ==
  IF i > Len(items) THEN <<>>
  ELSE IF ~isValidMeasurement_p2(items[i])
    THEN <<[index |-> i - 1, value |-> items[i]]>> \o invalids_p2(items, i + 1)
  ELSE invalids_p2(items, i + 1)

validateMeasurementsArray(ms) ==
  LET validationError == validateMeasurements_p2(ms)
  IN IF validationError # Null THEN validationError
     ELSE LET invalids == invalids_p2(ms.items, 1)
          IN IF Len(invalids) > 0
               THEN [error |-> "Some measurements are invalid.", details |-> invalids]
               ELSE Null

\* The keys of nominalCounts: the nominal of every result that carries one.
NominalKeys(results) ==
  {results[i].nominal.v : i \in {j \in 1..Len(results) : "nominal" \in DOMAIN results[j]}}

\* Object.keys lists keys that are whole numbers in ascending order; find takes
\* the first whose count is the greatest count.
findMostOccuredNominal(results) ==
  LET nominalCounts ==
        [k \in NominalKeys(results) |->
           Cardinality({i \in 1..Len(results) :
                          "nominal" \in DOMAIN results[i] /\ results[i].nominal.v = k})]
  IN MinOf({n \in DOMAIN nominalCounts :
              nominalCounts[n] = MaxOf({nominalCounts[k] : k \in DOMAIN nominalCounts})})

RECURSIVE farthestFrom(_, _, _, _)
farthestFrom(items, i, farthest, referenceNominal) ==
  IF i > Len(items) THEN farthest
  ELSE farthestFrom(items, i + 1,
         IF Greater(MathAbs(Minus(ToNumber(items[i]), Fin(referenceNominal))),
                    MathAbs(Minus(ToNumber(farthest), Fin(referenceNominal))))
           THEN items[i]
           ELSE farthest,
         referenceNominal)

findFarthestMeasurement(items, referenceNominal) ==
  farthestFrom(items, 1, items[1], referenceNominal)

\* "The difference between <m1> and <m2> is less than or equal to <value>. So,
\* it meets <type> Tolerance." or "... is greater than <value>. ...".
generateReasonForTolerances_p2(spec, m1, m2, toleranceValue, toleranceType) ==
  [within |-> (spec = TRUE), largest |-> parseToFixedThreeString_p2(m1),
   smallest |-> parseToFixedThreeString_p2(m2), base |-> toleranceValue,
   toleranceType |-> toleranceType]

checkITTolerance(items, baseITValue, ITGrade) ==
  LET largest == MathMax(items)
      smallest == MathMin(items)
      difference == parseToFixedThreeString_p2(ValueOf(Minus(largest, smallest)))
      meetsIT == JsLessEq(difference, Num(baseITValue))
  IN [meetsIT |-> meetsIT,
      itReason |-> generateReasonForTolerances_p2(meetsIT, ValueOf(largest),
                                                  ValueOf(smallest), baseITValue,
                                                  ITGrade)]

\* A result without a measurement (an item's error object) compares false.
checkSpecCompliance(results, baseSpec, mostFar) ==
  LET meetsSpec ==
        \A i \in 1..Len(results) :
          /\ "measurement" \in DOMAIN results[i]
          /\ JsGreaterEq(ValueOf(results[i].measurement),
                         baseSpec.computed_specification_bounds.lowerBound)
          /\ JsLessEq(ValueOf(results[i].measurement),
                      baseSpec.computed_specification_bounds.upperBound)
  IN [meetsSpec |-> meetsSpec,
      specReason |->
        generateReasonForSpecs_p2(meetsSpec, mostFar,
                                  baseSpec.computed_specification_bounds.lowerBound,
                                  baseSpec.computed_specification_bounds.upperBound,
                                  baseSpec.specification)]

generateOutcomeMessage(mostFar, baseSpec, meetsSpec, meetsIT) ==
  LET isWithinSizeRange ==
        /\ JsGreaterEq(mostFar, baseSpec.computed_specification_bounds.lowerBound)
        /\ JsLessEq(mostFar, baseSpec.computed_specification_bounds.upperBound)
      isOverSized == JsGreater(mostFar, baseSpec.computed_specification_bounds.upperBound)
  IN [sizeOutcome |-> IF isWithinSizeRange THEN "acceptable"
                      ELSE IF isOverSized THEN "over-sized" ELSE "under-sized",
      ITOutcome |-> IF isWithinSizeRange /\ meetsIT THEN "And, it meets IT tolerance."
                    ELSE IF ~isWithinSizeRange /\ meetsIT
                      THEN "However, it meets IT tolerance."
                    ELSE IF ~isWithinSizeRange THEN "And, it fails IT tolerance."
                    ELSE "But, it fails IT tolerance.",
      finalOutcome |-> IF meetsSpec /\ meetsIT
                         THEN "Finally, it meets final compliance and is acceptable to use."
                         ELSE "Finally, it doesn't meet final compliance and is not acceptable to use."]

meets_final_compliance_p2(meetsSpec, meetsIT) == meetsSpec /\ meetsIT

\* measurements.map(processIndividualMeasurement), item i onwards.
RECURSIVE mapItems_p2(_, _, _, _)
mapItems_p2(type, items, tol, i) ==
  IF i > Len(items) THEN <<>>
  ELSE <<processIndividualMeasurement_p2(type, items[i], tol)>>
       \o mapItems_p2(type, items, tol, i + 1)

\* baseSpec.matched_spec[baseSpec.IT_grade] is a TypeError when the first
\* result with the reference nominal is an item's error object.
checkMultipleMeasurementsFor_p2_checked(ms, mostFar, baseSpec, it, sp) ==
  [measurement |-> ms,
   meets_specification |-> [meetsSpec |-> sp.meetsSpec, reason |-> sp.specReason],
   meets_IT_Tolerance |-> [meetsIT |-> it.meetsIT, reason |-> it.itReason],
   meets_final_compliance |-> meets_final_compliance_p2(sp.meetsSpec, it.meetsIT),
   generalized_outcome |->
     generateOutcomeMessage(mostFar, baseSpec, sp.meetsSpec, it.meetsIT)]
  @@ baseSpec

checkMultipleMeasurementsFor_p2_baseSpec(ms, results, mostFar, baseSpec) ==
  [ret |-> IF "matched_spec" \notin DOMAIN baseSpec
             THEN Throw("TypeError")
             ELSE Return(checkMultipleMeasurementsFor_p2_checked(ms, mostFar, baseSpec,
                    checkITTolerance(ms.items, baseSpec.matched_spec[baseSpec.IT_grade],
                                     baseSpec.IT_grade),
                    checkSpecCompliance(results, baseSpec, mostFar))),
   calls |-> <<"validateMeasurementsArray", "getCamcoStandardTolerancesFor">>
               \o [i \in 1..Len(results) |-> "processIndividualMeasurement"]]

checkMultipleMeasurementsFor_p2_mostOccured(ms, results, mostOccured) ==
  checkMultipleMeasurementsFor_p2_baseSpec(ms, results,
    findFarthestMeasurement(ms.items, mostOccured), baseSpecOf(results, mostOccured))

checkMultipleMeasurementsFor_p2_results(ms, results) ==
  checkMultipleMeasurementsFor_p2_mostOccured(ms, results, findMostOccuredNominal(results))

checkMultipleMeasurementsFor_p2_camco(ms, camcoTolerances) ==
  IF camcoTolerances.kind = "throw" \/ isError(camcoTolerances.val)
    THEN [ret |-> camcoTolerances,
          calls |-> <<"validateMeasurementsArray", "getCamcoStandardTolerancesFor">>]
    ELSE checkMultipleMeasurementsFor_p2_results(ms,
           mapItems_p2(camcoTolerances.val.type, ms.items, camcoTolerances.val, 1))

checkMultipleMeasurementsFor_p2(mt, ms) ==
  IF validateMeasurementsArray(ms) # Null
    THEN [ret |-> Return(validateMeasurementsArray(ms)),
          calls |-> <<"validateMeasurementsArray">>]
    ELSE checkMultipleMeasurementsFor_p2_camco(ms, getCamcoStandardTolerancesFor(mt))

(***************************************************************************)
(* The arguments a caller may hand in                                      *)
(***************************************************************************)
MaterialTypes ==
  {NotAString,
   Str(<<>>),
   Str(<<" ", " ">>),
   Str(<<"u", "n", "k", "n", "o", "w", "n">>),
   Str(<<"h", "o", "u", "s", "i", "n", "g">>),
   Str(<<"S", "h", "a", "f", "t", " ", "r", "o", "d">>),
   Str(<<"s", "h", "e", "l", "l">>),
   Str(<<"s", "h", "a", "f", "t", " ", "s", "h", "e", "l", "l">>)}

\* Values that occur as items of a measurement list.
Elements ==
  {Num(0), Num(250000), Num(250100), Num(250234), Num(260100), Num(249820),
   Num(-10000), NumStr(250100), JunkStr(120000)}

\* Values that occur as a single measurement.
Scalars ==
  Elements \cup
  {Num(1000), Num(2000), Num(51000), Num(59000), Num(180000), Num(249700), Num(250330), Num(250500),
   Num(253000), Num(255000),
   Num(300000), Num(5000000), Num(9999999), Num(10000000),
   NaNValue, InfValue, NegInfValue, BadStr, Null}

Lists == UNION {[1..n -> Elements] : n \in 0..MaxLen}

Measurements == Scalars \cup {Array(s) : s \in Lists}

(***************************************************************************)
(* The state machine: a caller's arguments, and one call made with them    *)
(***************************************************************************)
Init ==
  /\ tolerances = Tolerances
  /\ materialType \in MaterialTypes
  /\ measurement \in Measurements
  /\ op = "none"
  /\ result = NoResult
  /\ calls = <<>>

GetAllTolerancesFor ==
  /\ op = "none"
  /\ op' = "getAllTolerancesFor"
  /\ result' = getAllTolerancesFor(materialType)
  /\ calls' = <<>>
  /\ UNCHANGED <<tolerances, materialType, measurement>>

GetCamcoStandardTolerancesFor ==
  /\ op = "none"
  /\ op' = "getCamcoStandardTolerancesFor"
  /\ result' = getCamcoStandardTolerancesFor(materialType)
  /\ calls' = <<>>
  /\ UNCHANGED <<tolerances, materialType, measurement>>

CheckOneMeasurementFor ==
  /\ op = "none"
  /\ op' = "checkOneMeasurementFor"
  /\ \E r \in {checkOneMeasurementFor(materialType, measurement)} : result' = r.ret /\ calls' = r.calls
  /\ UNCHANGED <<tolerances, materialType, measurement>>

\* As CheckMultipleMeasurementsFor, with the first measurement taken off the
\* caller's list while it is read.
CheckMultipleMeasurementsFor_shifting ==
  /\ op = "none"
  /\ op' = "checkMultipleMeasurementsFor"
  /\ \E r \in {checkMultipleMeasurementsFor(materialType, measurement)} : result' = r.ret /\ calls' = r.calls
  /\ measurement' = IF measurement.type = "array" /\ Len(measurement.items) > 0
                      THEN Array(Tail(measurement.items))
                      ELSE measurement
  /\ UNCHANGED <<tolerances, materialType>>

CheckMultipleMeasurementsFor ==
  /\ op = "none"
  /\ op' = "checkMultipleMeasurementsFor"
  /\ \E r \in {checkMultipleMeasurementsFor(materialType, measurement)} : result' = r.ret /\ calls' = r.calls
  /\ UNCHANGED <<tolerances, materialType, measurement>>

CheckOneMeasurementFor_p2 ==
  /\ op = "none"
  /\ op' = "checkOneMeasurementFor_p2"
  /\ \E r \in {checkOneMeasurementFor_p2(materialType, measurement)} : result' = r.ret /\ calls' = r.calls
  /\ UNCHANGED <<tolerances, materialType, measurement>>

CheckMultipleMeasurementsFor_p2 ==
  /\ op = "none"
  /\ op' = "checkMultipleMeasurementsFor_p2"
  /\ \E r \in {checkMultipleMeasurementsFor_p2(materialType, measurement)} : result' = r.ret /\ calls' = r.calls
  /\ UNCHANGED <<tolerances, materialType, measurement>>

\* The call is over: the caller lets go of its arguments and of the result.
\* The table stays as the call left it.
Returned ==
  /\ op \notin {"none", "idle"}
  /\ op' = "idle"
  /\ materialType' = NotAString
  /\ measurement' = Null
  /\ result' = NoResult
  /\ calls' = <<>>
  /\ UNCHANGED tolerances

\* The caller makes ready the arguments of its next call.
Arguments ==
  /\ op = "idle"
  /\ op' = "none"
  /\ materialType' \in MaterialTypes
  /\ measurement' \in Measurements
  /\ UNCHANGED <<tolerances, result, calls>>

Next ==
  \/ GetAllTolerancesFor
  \/ GetCamcoStandardTolerancesFor
  \/ CheckOneMeasurementFor
  \/ CheckMultipleMeasurementsFor
  \/ CheckOneMeasurementFor_p2
  \/ CheckMultipleMeasurementsFor_p2
  \/ Returned
  \/ Arguments

Spec == Init /\ [][Next]_vars

(***************************************************************************)
(* The helpers on their own: each is applied once to arguments of the kind *)
(* its callers hand it                                                     *)
(***************************************************************************)

\* Deviations of a row, in 0.0001 mm: below zero, zero and above zero.
Deviations == {-330, -70, 0, 210, 330}

\* Rows of the bracket 18 to 30 with every pairing of deviations.
SignedRows == {Row(18, 30, up, low, 90, 130) : up \in Deviations, low \in Deviations}

\* The type key the accessor hands on for the category ("undefined" when it
\* returned its error), and its row-set.
HelperType == TypeOf(getCamcoStandardTolerancesFor(materialType).val)
HelperSpecs == SpecificationOf(getCamcoStandardTolerancesFor(materialType).val)

\* The measurement is a whole number of millimetres, as a nominal is.
IsNominal(m) == m.type = "number" /\ m.cls = "fin" /\ m.v >= 0 /\ m.v % 10000 = 0

InitHelpers ==
  /\ tolerances = Tolerances
  /\ materialType \in MaterialTypes
  /\ measurement \in Scalars
  /\ op = "none"
  /\ result = NoResult
  /\ calls = <<>>

ParseNominalFromMeasurement ==
  /\ op = "none"
  /\ getCamcoStandardTolerancesFor(materialType).kind = "return"
  /\ op' = "parseNominalFromMeasurement"
  /\ result' = Return([type |-> HelperType,
                       nominal |-> parseNominalFromMeasurement(measurement, HelperType)])
  /\ calls' = <<>>
  /\ UNCHANGED <<tolerances, materialType, measurement>>

ParseNominalFromMeasurement_p2 ==
  /\ op = "none"
  /\ getCamcoStandardTolerancesFor(materialType).kind = "return"
  /\ op' = "parseNominalFromMeasurement_p2"
  /\ result' = Return([type |-> HelperType,
                       nominal |-> parseNominalFromMeasurement_p2(measurement, HelperType)])
  /\ calls' = <<>>
  /\ UNCHANGED <<tolerances, materialType, measurement>>

FindMatchingSpec ==
  /\ op = "none"
  /\ getCamcoStandardTolerancesFor(materialType).kind = "return"
  /\ HelperType \in DOMAIN MATERIAL_TYPE_CONFIG
  /\ IsNominal(measurement)
  /\ op' = "findMatchingSpec"
  /\ result' = Return([type |-> HelperType,
                       nominal |-> Fin(measurement.v),
                       matched |-> findMatchingSpec(Fin(measurement.v), HelperSpecs,
                                                    HelperType)])
  /\ calls' = <<>>
  /\ UNCHANGED <<tolerances, materialType, measurement>>

\* calculateComputedBounds and calculateUncomputedBounds of one nominal and row,
\* as processMeasurement calls them one after the other.
CalculateBounds ==
  /\ op = "none"
  /\ getCamcoStandardTolerancesFor(materialType).kind = "return"
  /\ HelperType \in DOMAIN MATERIAL_TYPE_CONFIG
  /\ IsNominal(measurement)
  /\ \E spec \in SignedRows \cup {HelperSpecs[i] : i \in 1..Len(HelperSpecs)} :
       result' = Return([nominal |-> Fin(measurement.v),
                         spec |-> spec,
                         computed |-> calculateComputedBounds(Fin(measurement.v), spec),
                         uncomputed |-> calculateUncomputedBounds(Fin(measurement.v), spec)])
  /\ op' = "calculateBounds"
  /\ calls' = <<>>
  /\ UNCHANGED <<tolerances, materialType, measurement>>

\* A row-set whose brackets follow one another without gap or overlap from 0
\* to above 1000.
WideRows ==
  <<Row(0, 18, 270, 0, 80, 110), Row(18, 30, 330, 0, 90, 130),
    Row(30, 1001, 390, 0, 110, 160)>>

\* The rows of WideRows in every order.
RowSets ==
  {[i \in 1..Len(WideRows) |-> WideRows[p[i]]] :
     p \in {q \in [1..Len(WideRows) -> 1..Len(WideRows)] :
              \A i, j \in 1..Len(WideRows) : q[i] = q[j] => i = j}}

\* processMeasurement up to matchedSpec: the nominal of the measurement, looked
\* up in the row-set handed in.
MatchNominal ==
  /\ op = "none"
  /\ getCamcoStandardTolerancesFor(materialType).kind = "return"
  /\ HelperType \in DOMAIN MATERIAL_TYPE_CONFIG
  /\ isValidMeasurement(measurement)
  /\ \E rows \in RowSets :
       result' = Return([type |-> HelperType,
                         rows |-> rows,
                         nominal |-> parseNominalFromMeasurement(measurement, HelperType),
                         matched |-> findMatchingSpec(
                                       parseNominalFromMeasurement(measurement, HelperType),
                                       rows, HelperType)])
  /\ op' = "matchNominal"
  /\ calls' = <<>>
  /\ UNCHANGED <<tolerances, materialType, measurement>>

NextHelpers ==
  \/ ParseNominalFromMeasurement
  \/ ParseNominalFromMeasurement_p2
  \/ FindMatchingSpec
  \/ CalculateBounds
  \/ MatchNominal

SpecHelpers == InitHelpers /\ [][NextHelpers]_vars

(***************************************************************************)
(* What the claims speak of                                                *)
(***************************************************************************)
Succeeded == result.kind = "return" /\ ~isError(result.val)

SingleOps == {"checkOneMeasurementFor", "checkOneMeasurementFor_p2"}
BatchOps == {"checkMultipleMeasurementsFor", "checkMultipleMeasurementsFor_p2"}

\* A measurement the specification calls invalid: no number and no text of a
\* number, not finite, negative, or 1000 and more.
InvalidMeasurement(x) ==
  \/ x.type \notin {"number", "string"}
  \/ x.cls # "fin"
  \/ x.v < 0
  \/ x.v >= Mm(1000)

\* A category the specification calls invalid: no string, empty or blank, or
\* without any of the three keywords.
InvalidCategory(mt) ==
  \/ mt.type # "string"
  \/ trim(mt.chars) = <<>>
  \/ /\ ~includes(toLowerCase(mt.chars), HousingWord)
     /\ ~includes(toLowerCase(mt.chars), ShaftWord)
     /\ ~includes(toLowerCase(mt.chars), ShellWord)

IsMeasurementError(r) ==
  /\ r.kind = "return"
  /\ \/ r.val = MeasurementError
     \/ r.val = [error |-> "Measurement must be between 0 and 1000."]
     \/ r.val = [error |-> TRUE, message |-> "Invalid measurement value"]

\* The measurement of a single evaluation, as a number of 0.0001 mm.
Measured == ToNumber(measurement).v
LowerBound == result.val.computed_specification_bounds.lowerBound.v
UpperBound == result.val.computed_specification_bounds.upperBound.v

Distance(a, b) == IF a < b THEN b - a ELSE a - b

(***************************************************************************)
(* C1: checkOneMeasurementFor answers every measurement that is no number, *)
(* not finite, negative, or 1000 and more with a measurement error,        *)
(* whatever the category, and has run nothing but the validity check by    *)
(* then: no category resolution, no nominal, no table lookup.              *)
(***************************************************************************)
C1_RejectsBeforeResolution ==
  (op = "checkOneMeasurementFor" /\ InvalidMeasurement(measurement))
    => (IsMeasurementError(result) /\ calls = <<"isValidMeasurement">>)

(***************************************************************************)
(* C2: for a category that is no string, is empty or blank, or has none of *)
(* the keywords, getAllTolerancesFor, getCamcoStandardTolerancesFor and    *)
(* checkOneMeasurementFor (given a valid measurement) return an error      *)
(* value and do not throw.                                                 *)
(***************************************************************************)
C2_InvalidCategoryIsErrorValue ==
  ( /\ InvalidCategory(materialType)
    /\ \/ op \in {"getAllTolerancesFor", "getCamcoStandardTolerancesFor"}
       \/ /\ op = "checkOneMeasurementFor"
          /\ measurement.type = "number"
          /\ ~InvalidMeasurement(measurement) )
    => (result.kind = "return" /\ isError(result.val))

(***************************************************************************)
(* C3: in a successful result of checkOneMeasurementFor, meetsSpec is true *)
(* exactly when lowerBound <= measurement <= upperBound, both ends         *)
(* included, the bounds being the matched row's: the nominal plus its      *)
(* deviations, to three decimals.                                          *)
(***************************************************************************)
C3_MeetsSpecInclusive ==
  (op \in SingleOps /\ Succeeded)
    => /\ (result.val.meets_specification.meetsSpec = TRUE)
            <=> (LowerBound <= Measured /\ Measured <= UpperBound)
       /\ Distance(LowerBound,
                   result.val.nominal.v + result.val.matched_spec.lower_deviation) <= 5
       /\ Distance(UpperBound,
                   result.val.nominal.v + result.val.matched_spec.upper_deviation) <= 5

\* A measurement exactly on the upper bound was judged, and meets the specification.
C3_Witness ==
  /\ op = "checkOneMeasurementFor"
  /\ Succeeded
  /\ Measured = UpperBound
  /\ result.val.meets_specification.meetsSpec = TRUE

(***************************************************************************)
(* C4: the outcome of a successful single evaluation is one of over-sized  *)
(* (measurement above the upper bound), under-sized (below the lower       *)
(* bound) and acceptable (otherwise), and it is acceptable exactly when    *)
(* meetsSpec is true.                                                      *)
(***************************************************************************)
C4_OutcomeClassification ==
  (op \in SingleOps /\ Succeeded)
    => LET concluded == result.val.meets_specification.concludedReason
       IN /\ concluded \in {"over-sized", "under-sized", "acceptable"}
          /\ (concluded = "over-sized") <=> (Measured > UpperBound)
          /\ (concluded = "under-sized") <=> (Measured < LowerBound)
          /\ (concluded = "acceptable")
               <=> (result.val.meets_specification.meetsSpec = TRUE)

\* A measurement exactly on the lower bound was classified as acceptable.
C4_Witness ==
  /\ op = "checkOneMeasurementFor"
  /\ Succeeded
  /\ Measured = LowerBound
  /\ result.val.meets_specification.concludedReason = "acceptable"

(***************************************************************************)
(* C5: a successful result of checkOneMeasurementFor or of                 *)
(* checkMultipleMeasurementsFor reports H8 / IT6 for a housing, H9 / IT6   *)
(* for a shell and h9 / IT5 for a shaft, and its matched row is a row of   *)
(* that designation's row-set of that category.                            *)
(***************************************************************************)
Camco(type, designation, grade) ==
  /\ result.val.specification = designation
  /\ result.val.IT_grade = grade
  /\ \E i \in 1..Len(tolerances[type][designation]) :
       tolerances[type][designation][i] = result.val.matched_spec

C5_CamcoStandard ==
  (op \in SingleOps \cup BatchOps /\ Succeeded)
    => LET name == toLowerCase(materialType.chars)
           housing == includes(name, HousingWord)
           shell == includes(name, ShellWord)
           shaft == includes(name, ShaftWord)
       IN /\ housing => Camco("housingBores", "H8", "IT6")
          /\ (~housing /\ shell /\ ~shaft) => Camco("shellBores", "H9", "IT6")
          /\ (~housing /\ shaft /\ ~shell) => Camco("shafts", "h9", "IT5")
          /\ \/ housing /\ Camco("housingBores", "H8", "IT6")
             \/ shell /\ Camco("shellBores", "H9", "IT6")
             \/ shaft /\ Camco("shafts", "h9", "IT5")

\* A batch of shaft measurements was evaluated against a row of h9.
C5_Witness ==
  /\ op = "checkMultipleMeasurementsFor"
  /\ Succeeded
  /\ Camco("shafts", "h9", "IT5")

(***************************************************************************)
(* C6: in checkMultipleMeasurementsFor of src/index.js, for a batch of     *)
(* valid measurements that all match a row, the reference nominal (the     *)
(* nominal of the result) is the nominal that occurs most often among the  *)
(* nominals of the batch's measurements.                                   *)
(***************************************************************************)
C6_ReferenceIsMostFrequent ==
  (op = "checkMultipleMeasurementsFor" /\ Succeeded)
    => LET type == getCamcoStandardTolerancesFor(materialType).val.type
           nominalOf(i) == parseNominalFromMeasurement(measurement.items[i], type)
           Count(n) == Cardinality({i \in 1..Len(measurement.items) : nominalOf(i) = n})
       IN \A i \in 1..Len(measurement.items) :
            Count(result.val.nominal) >= Count(nominalOf(i))

(***************************************************************************)
(* C7: in a successful result of checkMultipleMeasurementsFor,             *)
(* meets_final_compliance is true exactly when meetsSpec and meetsIT are   *)
(* both true.                                                              *)
(***************************************************************************)
C7_FinalCompliance ==
  (op \in BatchOps /\ Succeeded)
    => (result.val.meets_final_compliance = TRUE)
         <=> /\ result.val.meets_specification.meetsSpec = TRUE
             /\ result.val.meets_IT_Tolerance.meetsIT = TRUE

\* A batch whose items all met the specification failed the IT tolerance, and
\* with it the final compliance.
C7_Witness ==
  /\ op = "checkMultipleMeasurementsFor"
  /\ Succeeded
  /\ result.val.meets_specification.meetsSpec = TRUE
  /\ result.val.meets_IT_Tolerance.meetsIT = FALSE
  /\ result.val.meets_final_compliance = FALSE

(***************************************************************************)
(* C8: in checkMultipleMeasurementsFor, meetsIT is true exactly when       *)
(* max(measurements) - min(measurements) <= M as numbers, M being the      *)
(* matched row's magnitude of the category's IT grade; the spread is not   *)
(* rounded first, so this holds of measurements finer than 0.001 mm too.   *)
(***************************************************************************)
C8_SpreadComparedAsNumbers ==
  (op \in BatchOps /\ Succeeded)
    => (result.val.meets_IT_Tolerance.meetsIT = TRUE)
         <=> (MathMax(measurement.items).v - MathMin(measurement.items).v
                <= result.val.matched_spec[result.val.IT_grade])

(***************************************************************************)
(* C9: in checkMultipleMeasurementsFor of src/unnamed/part_002, meetsSpec  *)
(* is true exactly when every measurement of the batch lies within the     *)
(* bounds of its own nominal and matched row.                              *)
(***************************************************************************)
C9_EachItemAgainstItsOwnBounds ==
  (op = "checkMultipleMeasurementsFor_p2" /\ Succeeded)
    => LET tol == getCamcoStandardTolerancesFor(materialType).val
           item(i) == processIndividualMeasurement_p2(tol.type, measurement.items[i], tol)
           within(i) ==
             /\ "matched_spec" \in DOMAIN item(i)
             /\ item(i).nominal.v + item(i).matched_spec.lower_deviation
                  <= ToNumber(measurement.items[i]).v
             /\ ToNumber(measurement.items[i]).v
                  <= item(i).nominal.v + item(i).matched_spec.upper_deviation
       IN (result.val.meets_specification.meetsSpec = TRUE)
            <=> \A i \in 1..Len(measurement.items) : within(i)

(***************************************************************************)
(* C10: checkMultipleMeasurementsFor returns an error value when its       *)
(* measurements are no list or an empty list; when the list holds an       *)
(* invalid measurement it returns an error whose details name exactly the  *)
(* indices of the invalid items, and no item has been evaluated.           *)
(***************************************************************************)
C10_BatchValidation ==
  (op = "checkMultipleMeasurementsFor")
    => /\ (measurement.type # "array" \/ Len(measurement.items) = 0)
            => (result.kind = "return" /\ isError(result.val))
       /\ ( /\ measurement.type = "array"
            /\ \E i \in 1..Len(measurement.items) : InvalidMeasurement(measurement.items[i]) )
            => /\ result.kind = "return"
               /\ isError(result.val)
               /\ "details" \in DOMAIN result.val
               /\ {result.val.details[k].index : k \in 1..Len(result.val.details)}
                    = {i - 1 : i \in {j \in 1..Len(measurement.items) :
                                        InvalidMeasurement(measurement.items[j])}}
               /\ \A k \in 1..Len(calls) : calls[k] # "processIndividualMeasurement"

\* The measurement x, derived to its nominal, lies in no bracket of the row-set
\* that getCamcoStandardTolerancesFor hands out for the category.
NoRowFor(x) ==
  LET tol == getCamcoStandardTolerancesFor(materialType).val
  IN findMatchingSpec(parseNominalFromMeasurement(x, tol.type),
                      tol.specification, tol.type) = Null

(***************************************************************************)
(* C11: checkOneMeasurementFor of src/index.js, given a category that      *)
(* resolves and a valid numeric measurement whose nominal lies in no       *)
(* bracket of the category's row-set, returns an error value that reports  *)
(* that no specification was found for the nominal, other than the         *)
(* category and the measurement errors, and does not throw.                *)
(***************************************************************************)
C11_NoMatchIsErrorValue ==
  ( /\ op = "checkOneMeasurementFor"
    /\ ~InvalidCategory(materialType)
    /\ measurement.type = "number"
    /\ ~InvalidMeasurement(measurement)
    /\ NoRowFor(measurement) )
    => /\ result.kind = "return"
       /\ isError(result.val)
       /\ "message" \in DOMAIN result.val
       /\ result.val.message = "No specification found for nominal diameter: ..."
       /\ ~IsMeasurementError(result)
       /\ result.val # UnknownMaterialType

(***************************************************************************)
(* C12: checkMultipleMeasurementsFor of src/index.js, given a non-empty    *)
(* list of valid measurements and a category that is no string, is empty   *)
(* or has none of the three keywords, returns the category error without   *)
(* having evaluated a measurement, and does not throw.                     *)
(***************************************************************************)
C12_BatchInvalidCategory ==
  ( /\ op = "checkMultipleMeasurementsFor"
    /\ InvalidCategory(materialType)
    /\ measurement.type = "array"
    /\ Len(measurement.items) > 0
    /\ \A i \in 1..Len(measurement.items) :
         /\ measurement.items[i].type = "number"
         /\ ~InvalidMeasurement(measurement.items[i]) )
    => /\ result.kind = "return"
       /\ isError(result.val)
       /\ \A k \in 1..Len(calls) : calls[k] # "processIndividualMeasurement"

(***************************************************************************)
(* C13: for a batch of valid measurements of which at least one has a      *)
(* nominal that lies in no bracket, checkMultipleMeasurementsFor returns   *)
(* a value and does not throw: an error, or a result that does not pass    *)
(* the batch as compliant as if the failed item were not there.            *)
(***************************************************************************)
C13_BatchNoMatchIsSurfaced ==
  ( /\ op \in BatchOps
    /\ ~InvalidCategory(materialType)
    /\ measurement.type = "array"
    /\ Len(measurement.items) > 0
    /\ \A i \in 1..Len(measurement.items) :
         /\ measurement.items[i].type = "number"
         /\ ~InvalidMeasurement(measurement.items[i])
    /\ \E i \in 1..Len(measurement.items) : NoRowFor(measurement.items[i]) )
    => /\ result.kind = "return"
       /\ Succeeded => result.val.meets_final_compliance = FALSE

\* The category a string names when the keywords are tried in the order
\* housing, shaft, shell; "none" when it holds no keyword.
CategoryOf(mt) ==
  IF includes(toLowerCase(mt.chars), HousingWord) THEN "housingBores"
  ELSE IF includes(toLowerCase(mt.chars), ShaftWord) THEN "shafts"
  ELSE IF includes(toLowerCase(mt.chars), ShellWord) THEN "shellBores"
  ELSE "none"

(***************************************************************************)
(* C14: getAllTolerancesFor and getCamcoStandardTolerancesFor both resolve *)
(* a category string by its keywords without regard to case, housing       *)
(* before shaft before shell; a string with both shaft and shell and       *)
(* without housing resolves to the shafts in both.                         *)
(***************************************************************************)
C14_KeywordPrecedence ==
  ( /\ op \in {"getAllTolerancesFor", "getCamcoStandardTolerancesFor"}
    /\ ~InvalidCategory(materialType) )
    => /\ result.kind = "return"
       /\ ~isError(result.val)
       /\ result.val.type = CategoryOf(materialType)

\* A display bound "<base> <sign> <magnitude>" worked out as arithmetic.
Evaluated(display) ==
  IF display.sign = "+"
    THEN display.base.v + display.magnitude
    ELSE display.base.v - display.magnitude

(***************************************************************************)
(* C15: for every whole nominal and every row, whatever the signs of its   *)
(* deviations, the two display bounds of calculateUncomputedBounds, worked *)
(* out as arithmetic, equal the bounds of calculateComputedBounds to three *)
(* decimals.                                                               *)
(***************************************************************************)
C15_DisplayRoundTrip ==
  (op = "calculateBounds")
    => /\ Distance(Evaluated(result.val.uncomputed.upperBound),
                   result.val.computed.upperBound.v) <= 5
       /\ Distance(Evaluated(result.val.uncomputed.lowerBound),
                   result.val.computed.lowerBound.v) <= 5

(***************************************************************************)
(* C16: every successful result of checkMultipleMeasurementsFor of         *)
(* src/index.js carries a composed narrative: the size classification of   *)
(* the farthest measurement against the reference bounds, the IT verdict   *)
(* and the final verdict.                                                  *)
(***************************************************************************)
C16_BatchNarrative ==
  (op = "checkMultipleMeasurementsFor" /\ Succeeded)
    => \E field \in {"generalized_outcome", "outcome"} :
         /\ field \in DOMAIN result.val
         /\ result.val[field].sizeOutcome \in {"acceptable", "over-sized", "under-sized"}
         /\ "ITOutcome" \in DOMAIN result.val[field]
         /\ "finalOutcome" \in DOMAIN result.val[field]

\* The names op takes when one of the exported functions has been called.
CallOps ==
  {"getAllTolerancesFor", "getCamcoStandardTolerancesFor"} \cup SingleOps \cup BatchOps

(***************************************************************************)
(* C17: whatever calls of getAllTolerancesFor,                             *)
(* getCamcoStandardTolerancesFor, checkOneMeasurementFor and               *)
(* checkMultipleMeasurementsFor have been made, with whatever arguments,   *)
(* the tolerance table is the one read at load, and a call leaves the      *)
(* measurement list it was handed as it was.                               *)
(***************************************************************************)
C17_CallsLeaveTableAndList ==
  /\ tolerances = Tolerances
  /\ [][ /\ tolerances' = Tolerances
         /\ op' \in CallOps => /\ tolerances' = tolerances
                               /\ measurement' = measurement ]_vars

\* A batch of several measurements was evaluated, and the table is the one
\* read at load.
C17_Witness ==
  /\ op = "checkMultipleMeasurementsFor"
  /\ Succeeded
  /\ Len(measurement.items) >= 2
  /\ result.val.measurement = measurement
  /\ tolerances = Tolerances

\* floor and ceil of a number of 0.0001 mm that is not below zero.
FloorOf(v) == (v \div 10000) * 10000
CeilOf(v) == IF v % 10000 = 0 THEN v ELSE FloorOf(v) + 10000

(***************************************************************************)
(* C18: parseNominalFromMeasurement, its threshold 0.9, gives for every    *)
(* valid measurement m of a shaft floor(m) when ceil(m) - m >= 0.9 and     *)
(* ceil(m) otherwise, and of a housing or shell bore ceil(m) when          *)
(* m - floor(m) >= 0.9 and floor(m) otherwise; the nominal is a whole      *)
(* number between floor(m) and ceil(m), and a whole measurement is its own *)
(* nominal.                                                                *)
(***************************************************************************)
C18_NominalRule ==
  ( /\ op \in {"parseNominalFromMeasurement", "parseNominalFromMeasurement_p2"}
    /\ result.val.type \in {"shafts", "housingBores", "shellBores"}
    /\ ~InvalidMeasurement(measurement) )
    => LET m == measurement.v
           n == result.val.nominal
       IN /\ ~isError(n)
          /\ n.cls = "fin"
          /\ result.val.type = "shafts"
               => n.v = IF CeilOf(m) - m >= 9000 THEN FloorOf(m) ELSE CeilOf(m)
          /\ result.val.type \in {"housingBores", "shellBores"}
               => n.v = IF m - FloorOf(m) >= 9000 THEN CeilOf(m) ELSE FloorOf(m)
          /\ n.v % 10000 = 0
          /\ FloorOf(m) <= n.v /\ n.v <= CeilOf(m)
          /\ m % 10000 = 0 => n.v = m

\* A shaft of 5.1, exactly 0.9 below the next whole number, got the nominal 5.
C18_Witness ==
  /\ op = "parseNominalFromMeasurement"
  /\ result.val.type = "shafts"
  /\ measurement = Num(51000)
  /\ result.val.nominal = Fin(50000)

\* The bracket of a row holds the nominal n: above its minimum up to its maximum
\* for a shaft, from its minimum to below its maximum for a bore.
Holds(type, row, n) ==
  IF type = "shafts"
    THEN row.minimum_diameter < n /\ n <= row.maximum_diameter
    ELSE row.minimum_diameter <= n /\ n < row.maximum_diameter

(***************************************************************************)
(* C19: findMatchingSpec returns the first row in table order whose        *)
(* bracket holds the nominal (minimum < n <= maximum for shafts,           *)
(* minimum <= n < maximum for housing and shell bores) and null when no    *)
(* row does; a nominal on the boundary of two brackets matches the one     *)
(* that ends there for a shaft and the one that starts there for a bore.   *)
(***************************************************************************)
C19_FirstRowHoldingTheNominal ==
  (op = "findMatchingSpec")
    => LET type == result.val.type
           n == result.val.nominal.v
           rows == HelperSpecs
           holding == {i \in 1..Len(rows) : Holds(type, rows[i], n)}
       IN /\ holding = {} => result.val.matched = Null
          /\ holding # {} => result.val.matched = rows[MinOf(holding)]
          /\ \A i \in 1..Len(rows) :
               ( /\ i < Len(rows)
                 /\ rows[i].maximum_diameter = n
                 /\ rows[i + 1].minimum_diameter = n )
                 => result.val.matched = IF type = "shafts" THEN rows[i] ELSE rows[i + 1]

\* The nominal 18, where two brackets meet, matched for a shaft the row that
\* ends at 18.
C19_Witness ==
  /\ op = "findMatchingSpec"
  /\ result.val.type = "shafts"
  /\ result.val.nominal = Fin(Mm(18))
  /\ result.val.matched # Null
  /\ result.val.matched.maximum_diameter = Mm(18)

(***************************************************************************)
(* C20: calculateComputedBounds gives upperBound = nominal +               *)
(* upper_deviation and lowerBound = nominal + lower_deviation, each        *)
(* deviation added with its own sign (a lower_deviation below zero lowers  *)
(* the bound), each as a text of exactly three decimals.                   *)
(***************************************************************************)
C20_ComputedBounds ==
  (op = "calculateBounds")
    => LET nominal == result.val.nominal.v
           row == result.val.spec
           upper == result.val.computed.upperBound
           lower == result.val.computed.lowerBound
       IN /\ upper.type = "string" /\ upper.cls = "fix3" /\ upper.v % 10 = 0
          /\ lower.type = "string" /\ lower.cls = "fix3" /\ lower.v % 10 = 0
          /\ upper.v = nominal + row.upper_deviation
          /\ lower.v = nominal + row.lower_deviation
          /\ row.lower_deviation < 0 => lower.v < nominal

\* The bounds of the nominal 25 and a row with a lower deviation below zero
\* were computed, and the lower bound lies below the nominal.
C20_Witness ==
  /\ op = "calculateBounds"
  /\ result.val.nominal = Fin(Mm(25))
  /\ result.val.spec.lower_deviation < 0
  /\ result.val.computed.lowerBound.v < Mm(25)

\* The position in the list of the measurement farthest from the nominal ref,
\* the first of those equally far.
FarthestIndex(items, ref) ==
  CHOOSE i \in 1..Len(items) :
    /\ \A j \in 1..Len(items) :
         Distance(ToNumber(items[j]).v, ref) <= Distance(ToNumber(items[i]).v, ref)
    /\ \A j \in 1..(i - 1) :
         Distance(ToNumber(items[j]).v, ref) < Distance(ToNumber(items[i]).v, ref)

\* Every item of the list is a valid number.
AllValidNumbers(ms) ==
  /\ ms.type = "array"
  /\ Len(ms.items) > 0
  /\ \A i \in 1..Len(ms.items) :
       ms.items[i].type = "number" /\ ~InvalidMeasurement(ms.items[i])

(***************************************************************************)
(* C21: in checkMultipleMeasurementsFor of src/index.js the farthest       *)
(* measurement, the one named in the batch's specification reason, is the  *)
(* measurement at the greatest absolute distance from the reference        *)
(* nominal, and of several equally far the first in the list.              *)
(***************************************************************************)
C21_FarthestFromReference ==
  (op = "checkMultipleMeasurementsFor" /\ Succeeded /\ AllValidNumbers(measurement))
    => result.val.meets_specification.reason.measurement
         = parseToFixedThreeString(
             measurement.items[FarthestIndex(measurement.items, result.val.nominal.v)])

\* The nominal of item i of the batch, as src/unnamed/part_002 derives it.
NominalOf_p2(i) ==
  parseNominalFromMeasurement_p2(measurement.items[i],
    getCamcoStandardTolerancesFor(materialType).val.type).v

\* How many items of the batch have the nominal of item i.
Occurrences_p2(i) ==
  Cardinality({j \in 1..Len(measurement.items) : NominalOf_p2(j) = NominalOf_p2(i)})

\* The items whose nominal occurs most often in the batch.
MostOccurring_p2 ==
  {i \in 1..Len(measurement.items) :
     \A j \in 1..Len(measurement.items) : Occurrences_p2(j) <= Occurrences_p2(i)}

(***************************************************************************)
(* C22: in src/unnamed/part_002, when two or more nominals occur equally   *)
(* often and most often in the batch, the reference nominal is the one of  *)
(* them met first in the measurement list, not the smallest or largest.    *)
(***************************************************************************)
C22_TieGoesToFirstEncountered ==
  ( /\ op = "checkMultipleMeasurementsFor_p2"
    /\ Succeeded
    /\ AllValidNumbers(measurement)
    /\ \E i, j \in MostOccurring_p2 : NominalOf_p2(i) # NominalOf_p2(j) )
    => result.val.nominal.v = NominalOf_p2(MinOf(MostOccurring_p2))

(***************************************************************************)
(* C23: for each of the three categories and a row-set whose brackets      *)
(* follow one another from 0 to above 1000, the nominal of every valid     *)
(* measurement lies in some bracket under the category's rule: no valid    *)
(* measurement is left without a matching row.                             *)
(***************************************************************************)
C23_EveryValidMeasurementMatches ==
  (op = "matchNominal" /\ ~InvalidMeasurement(measurement))
    => result.val.matched # Null

(***************************************************************************)
(* C23, amended: the same for every valid measurement of a housing or      *)
(* shell bore, and for every valid measurement of a shaft above 0.1; a     *)
(* shaft of 0 to 0.1 has the nominal 0, which the shaft rule puts in no    *)
(* bracket.                                                                *)
(***************************************************************************)
C23_Amended ==
  ( /\ op = "matchNominal"
    /\ ~InvalidMeasurement(measurement)
    /\ result.val.type = "shafts" => measurement.v > 1000 )
    => /\ result.val.matched # Null
       /\ Holds(result.val.type, result.val.matched, result.val.nominal.v)

\* A bore of 999.9999, whose nominal is 1000, matched the last bracket.
C23_Witness ==
  /\ op = "matchNominal"
  /\ result.val.type = "housingBores"
  /\ measurement = Num(9999999)
  /\ result.val.nominal = Fin(Mm(1000))
  /\ result.val.matched = WideRows[3]

\* What checkOneMeasurementFor of src/index.js answers for the category and the
\* only item of a batch of one.
SingleOfTheItem == checkOneMeasurementFor(materialType, measurement.items[1]).ret

(***************************************************************************)
(* C24: for every category and every valid measurement m whose nominal     *)
(* matches a row, checkMultipleMeasurementsFor(category, [m]) returns the  *)
(* nominal, computed bounds, matched row and meetsSpec that                *)
(* checkOneMeasurementFor(category, m) returns, reports meetsIT = true,    *)
(* the spread being 0, and has meets_final_compliance equal to meetsSpec.  *)
(***************************************************************************)
C24_BatchOfOneIsTheSingle ==
  ( /\ op = "checkMultipleMeasurementsFor"
    /\ AllValidNumbers(measurement)
    /\ Len(measurement.items) = 1
    /\ SingleOfTheItem.kind = "return"
    /\ ~isError(SingleOfTheItem.val) )
    => /\ Succeeded
       /\ result.val.nominal = SingleOfTheItem.val.nominal
       /\ result.val.computed_specification_bounds
            = SingleOfTheItem.val.computed_specification_bounds
       /\ result.val.matched_spec = SingleOfTheItem.val.matched_spec
       /\ result.val.meets_specification.meetsSpec
            = SingleOfTheItem.val.meets_specification.meetsSpec
       /\ result.val.meets_IT_Tolerance.meetsIT = TRUE
       /\ result.val.meets_final_compliance
            = SingleOfTheItem.val.meets_specification.meetsSpec

\* A batch of the one measurement 24.982 of a housing, which is under-sized:
\* it meets the IT tolerance and fails the final compliance.
C24_Witness ==
  /\ op = "checkMultipleMeasurementsFor"
  /\ measurement = Array(<<Num(249820)>>)
  /\ Succeeded
  /\ result.val.meets_specification.meetsSpec = FALSE
  /\ result.val.meets_IT_Tolerance.meetsIT = TRUE
  /\ result.val.meets_final_compliance = FALSE

\* The orders a list of n items can be put in.
OrdersOf(n) ==
  {q \in [1..n -> 1..n] : \A i, j \in 1..n : q[i] = q[j] => i = j}

\* What checkMultipleMeasurementsFor of src/index.js answers for the batch put
\* in the order p.
Reordered(p) ==
  checkMultipleMeasurementsFor(materialType,
    Array([i \in 1..Len(measurement.items) |-> measurement.items[p[i]]])).ret

(***************************************************************************)
(* C25: for every category and every batch of valid measurements that all  *)
(* match a row, checkMultipleMeasurementsFor of src/index.js returns the   *)
(* same nominal, meetsSpec, meetsIT and meets_final_compliance for every   *)
(* order of the measurement list.                                          *)
(***************************************************************************)
C25_OrderOfTheListIsImmaterial ==
  (op = "checkMultipleMeasurementsFor" /\ Succeeded /\ AllValidNumbers(measurement))
    => \A p \in OrdersOf(Len(measurement.items)) :
         /\ Reordered(p).kind = "return"
         /\ ~isError(Reordered(p).val)
         /\ Reordered(p).val.nominal = result.val.nominal
         /\ Reordered(p).val.meets_specification.meetsSpec
              = result.val.meets_specification.meetsSpec
         /\ Reordered(p).val.meets_IT_Tolerance.meetsIT
              = result.val.meets_IT_Tolerance.meetsIT
         /\ Reordered(p).val.meets_final_compliance = result.val.meets_final_compliance

(***************************************************************************)
(* C26: whenever checkMultipleMeasurementsFor of src/index.js returns      *)
(* meetsSpec = true, the measurement named in its specification reason     *)
(* ("<m> falls between <lower> and <upper>") lies between the two bounds   *)
(* the reason names, the computed bounds of the reference nominal.         *)
(***************************************************************************)
C26_ReasonIsTrueOfItsMeasurement ==
  ( /\ op = "checkMultipleMeasurementsFor"
    /\ Succeeded
    /\ result.val.meets_specification.meetsSpec = TRUE )
    => LET reason == result.val.meets_specification.reason
       IN /\ reason.falls = TRUE
          /\ reason.lower = result.val.computed_specification_bounds.lowerBound
          /\ reason.upper = result.val.computed_specification_bounds.upperBound
          /\ reason.lower.v <= reason.measurement.v
          /\ reason.measurement.v <= reason.upper.v

\* The validation error of a batch: the list's items are refused one by one.
IsValidationError(r) ==
  /\ r.kind = "return"
  /\ "error" \in DOMAIN r.val
  /\ r.val.error = "Some measurements are invalid."

(***************************************************************************)
(* C27: the single and the batch evaluator of src/index.js accept the same *)
(* measurement values: for every category that resolves and every value v, *)
(* checkOneMeasurementFor(category, v) returns a measurement error exactly *)
(* when checkMultipleMeasurementsFor(category, [v]) returns the            *)
(* measurement-validation error.                                           *)
(***************************************************************************)
C27_SameValuesAccepted ==
  ( /\ op = "checkMultipleMeasurementsFor"
    /\ ~InvalidCategory(materialType)
    /\ measurement.type = "array"
    /\ Len(measurement.items) = 1 )
    => (IsMeasurementError(SingleOfTheItem) <=> IsValidationError(result))

\* What checkMultipleMeasurementsFor of src/unnamed/part_002 answers for the
\* category and the list of the call.
BatchOfPart002 == checkMultipleMeasurementsFor_p2(materialType, measurement).ret

(***************************************************************************)
(* C28: for every category and every batch of valid measurements that all  *)
(* match a row, checkMultipleMeasurementsFor of src/index.js and of        *)
(* src/unnamed/part_002 return the same nominal, the same meetsSpec, the   *)
(* same meetsIT and the same meets_final_compliance.                       *)
(***************************************************************************)
C28_TwoBatchEvaluatorsAgree ==
  ( /\ op = "checkMultipleMeasurementsFor"
    /\ ~InvalidCategory(materialType)
    /\ AllValidNumbers(measurement)
    /\ \A i \in 1..Len(measurement.items) : ~NoRowFor(measurement.items[i]) )
    => /\ Succeeded
       /\ BatchOfPart002.kind = "return"
       /\ ~isError(BatchOfPart002.val)
       /\ result.val.nominal = BatchOfPart002.val.nominal
       /\ result.val.meets_specification.meetsSpec
            = BatchOfPart002.val.meets_specification.meetsSpec
       /\ result.val.meets_IT_Tolerance.meetsIT
            = BatchOfPart002.val.meets_IT_Tolerance.meetsIT
       /\ result.val.meets_final_compliance
            = BatchOfPart002.val.meets_final_compliance

RowsHolding(type, rows, n) == {i \in 1..Len(rows) : Holds(type, rows[i], n)}

(***************************************************************************)
(* C30: in a row-set whose brackets are contiguous and do not overlap, at  *)
(* most one row holds a given nominal under the shaft rule and at most one *)
(* under the bore rule, so the row findMatchingSpec returns is the only    *)
(* row that holds the nominal, and it is the same row in whatever order    *)
(* the rows are given.                                                     *)
(***************************************************************************)
C30_TheMatchingRowIsUnique ==
  ( /\ op = "matchNominal"
    /\ ~isError(result.val.nominal)
    /\ result.val.nominal.cls = "fin" )
    => LET type == result.val.type
           rows == result.val.rows
           n == result.val.nominal
       IN /\ Cardinality(RowsHolding("shafts", rows, n.v)) <= 1
          /\ Cardinality(RowsHolding("housingBores", rows, n.v)) <= 1
          /\ result.val.matched # Null
               => RowsHolding(type, rows, n.v)
                    = {i \in 1..Len(rows) : rows[i] = result.val.matched}
          /\ result.val.matched = Null => RowsHolding(type, rows, n.v) = {}
          /\ \A other \in RowSets :
               findMatchingSpec(n, other, type) = result.val.matched

\* The nominal 18, where two brackets meet, looked up for a bore in a row-set
\* given in reverse order: the bracket that starts at 18 is matched, though
\* the bracket that ends there comes after it.
C30_Witness ==
  /\ op = "matchNominal"
  /\ result.val.type = "housingBores"
  /\ result.val.nominal = Fin(Mm(18))
  /\ result.val.rows = <<WideRows[3], WideRows[2], WideRows[1]>>
  /\ result.val.matched = WideRows[2]

====
